---- MODULE Spec2Model ----
(***************************************************************************)
(* The scripts of the pages as state machines over one page.               *)
(*                                                                         *)
(* static/js/utils.js: the request/notification pipeline, Utils.ajax,      *)
(* Utils.getCsrfToken, Utils.showNotification, Utils.updateCartBadge,      *)
(* Utils.addToCart and Utils.updateStatus.                                 *)
(* static/js/frontend.js: showToast and its container, the add-to-cart     *)
(* buttons of the product cards, updateCartCounter.                        *)
(* debounce(func, wait) of the admin script and of FrontendUtils.          *)
(*                                                                         *)
(* A JavaScript string is a sequence of one-character strings where the    *)
(* code looks inside it (cookies, tokens, methods, badge and counter text) *)
(* and a one-element sequence holding the whole text where the code only   *)
(* passes it along (messages, markup, fixed header values).                *)
(***************************************************************************)
EXTENDS Naturals, Sequences, FiniteSets, TLC

VARIABLES cookieJar, csrfField, cartBadge, calls, notifications, forms,
          reloadRequested, callBudget,
          containerElements, toasts,
          now, timers, funcRuns,
          buttons, clicks, cartCounter, counterTimers

\* What static/js/utils.js reads and writes, and callBudget: how many calls of
\* Utils.ajax, Utils.addToCart and Utils.updateStatus the scripts of the page
\* make in a run.
utilsVars == <<cookieJar, csrfField, cartBadge, calls, notifications, forms,
               reloadRequested, callBudget>>

\* The toasts of static/js/frontend.js: the number of elements with id
\* toast-container in the page, and the toasts showToast has made.
toastVars == <<containerElements, toasts>>

\* One function made by debounce(func, wait): the clock of the page, the
\* timers its invocations have set, one per invocation and in their order (the
\* closure variable timeout holds the last of them), and the runs of func.
debounceVars == <<now, timers, funcRuns>>

\* The product cards: the add-to-cart buttons, the click handlers that have
\* started (each with its closure and the timer it waits for), the element
\* .cart-counter and the number of pending timers of its animation.
buttonVars == <<buttons, clicks, cartCounter, counterTimers>>

\* What static/js/frontend.js reads and writes.
frontendVars == <<toastVars, debounceVars, buttonVars>>

vars == <<utilsVars, frontendVars>>

----------------------------------------------------------------------------
(* Bounds of the model. *)

MaxCalls == 1

MaxCartCalls == 2

MaxNotifications == 2

MaxToasts == 2

\* debounce: invocations of the debounced function, ticks of the clock, and
\* the wait in ticks.
MaxInvocations == 3

MaxTime == 6

Wait == 2

\* The product cards of the page and the clicks of a run.
NumButtons == 2

MaxClicks == 3

----------------------------------------------------------------------------
(* String primitives of the JavaScript runtime that the code uses. *)

\* String.prototype.startsWith
StartsWith(s, p) ==
    /\ Len(s) >= Len(p)
    /\ SubSeq(s, 1, Len(p)) = p

\* Index of the first occurrence of sep in s at or after position i, 0 if none.
RECURSIVE IndexOfFrom(_, _, _)
IndexOfFrom(s, sep, i) ==
    IF i + Len(sep) - 1 > Len(s) THEN 0
    ELSE IF SubSeq(s, i, i + Len(sep) - 1) = sep THEN i
    ELSE IndexOfFrom(s, sep, i + 1)

\* String.prototype.split with a non-empty separator: every piece, in order.
RECURSIVE Split(_, _)
Split(s, sep) ==
    LET i == IndexOfFrom(s, sep, 1)
    IN  IF i = 0 THEN <<s>>
        ELSE <<SubSeq(s, 1, i - 1)>> \o Split(SubSeq(s, i + Len(sep), Len(s)), sep)

\* Array.prototype.find with the predicate row.startsWith(p): the first such
\* row, or undefined.
RECURSIVE FindStartsWith(_, _)
FindStartsWith(rows, p) ==
    IF rows = <<>> THEN [found |-> FALSE, row |-> <<>>]
    ELSE IF StartsWith(Head(rows), p) THEN [found |-> TRUE, row |-> Head(rows)]
    ELSE FindStartsWith(Tail(rows), p)

\* One character of String.prototype.toUpperCase, over the letters of the
\* HTTP verbs.
UpperChar(c) ==
    CASE c = "a" -> "A" [] c = "c" -> "C" [] c = "d" -> "D" [] c = "e" -> "E"
      [] c = "g" -> "G" [] c = "h" -> "H" [] c = "l" -> "L" [] c = "o" -> "O"
      [] c = "p" -> "P" [] c = "s" -> "S" [] c = "t" -> "T" [] c = "u" -> "U"
      [] OTHER -> c

toUpperCase(s) == [i \in 1..Len(s) |-> UpperChar(s[i])]

Digit(d) ==
    CASE d = 0 -> "0" [] d = 1 -> "1" [] d = 2 -> "2" [] d = 3 -> "3"
      [] d = 4 -> "4" [] d = 5 -> "5" [] d = 6 -> "6" [] d = 7 -> "7"
      [] d = 8 -> "8" [] d = 9 -> "9"

\* Number-to-string conversion of a non-negative integer (textContent = count).
RECURSIVE NumberToString(_)
NumberToString(n) ==
    IF n < 10 THEN <<Digit(n)>>
    ELSE NumberToString(n \div 10) \o <<Digit(n % 10)>>

\* JavaScript truthiness of a value that is null or a string.
Truthy(v) == ~v.isNull /\ v.str # <<>>

Null == [isNull |-> TRUE, str |-> <<>>]

Str(s) == [isNull |-> FALSE, str |-> s]

----------------------------------------------------------------------------
(* The page the scripts run in: cookies, the hidden CSRF field, the badge. *)

CsrfCookieName == <<"c", "s", "r", "f", "t", "o", "k", "e", "n">>

SessionCookie == [name |-> <<"s", "i", "d">>, value |-> <<"x", "1">>]

\* A token of the cookie and a token of the hidden field.
TokenC == <<"t", "k", "C">>

TokenF == <<"t", "k", "F">>

\* The cookie jars a page may have: no cookie at all, a CSRF cookie after
\* another cookie, and a CSRF cookie with an empty value.
CookieJars ==
    { <<>>,
      <<SessionCookie, [name |-> CsrfCookieName, value |-> TokenC]>>,
      <<[name |-> CsrfCookieName, value |-> <<>>]>> }

\* The document.cookie getter: the jar as "name=value" rows joined by "; ".
RECURSIVE CookieString(_)
CookieString(jar) ==
    IF jar = <<>> THEN <<>>
    ELSE LET row == Head(jar).name \o <<"=">> \o Head(jar).value
         IN  IF Len(jar) = 1 THEN row
             ELSE row \o <<";", " ">> \o CookieString(Tail(jar))

documentCookie == CookieString(cookieJar)

\* The element [name=csrfmiddlewaretoken], when the page has one.
CsrfFields ==
    { [present |-> FALSE, value |-> <<>>],
      [present |-> TRUE, value |-> TokenF] }

\* The element .cart-badge, when the page has one, as the server rendered it.
CartBadges ==
    { [present |-> FALSE, textContent |-> <<>>, display |-> "none"],
      [present |-> TRUE, textContent |-> <<"3">>, display |-> "inline"] }

----------------------------------------------------------------------------
(* Utils.getCsrfToken *)

getCsrfToken(docCookie, field) ==
    LET cookieValue == FindStartsWith(Split(docCookie, <<";", " ">>),
                                      CsrfCookieName \o <<"=">>)
    IN  IF cookieValue.found
        THEN Str(Split(cookieValue.row, <<"=">>)[2])
        ELSE IF field.present THEN Str(field.value)
        ELSE Null

----------------------------------------------------------------------------
(* Utils.showNotification *)

\* The texts the helpers pass to showNotification.
MsgRequestFailed == <<"request failed, please retry">>

MsgAddedToCart == <<"product added to cart">>

MsgAddFailed == <<"add failed">>

MsgAddFailedRetry == <<"add failed, please retry">>

MsgOperationFailed == <<"operation failed">>

\* Variant: the timer callback removes without looking at parentElement.
TimerCallback_Unguarded(n) ==
    [n EXCEPT !.attached = FALSE, !.removeCalls = @ + 1,
              !.removedBy = IF n.attached THEN "timer" ELSE @,
              !.timerPending = FALSE]

\* What the setTimeout callback of a notification does to it when it runs.
TimerCallback(n) ==
    IF n.attached
    THEN [n EXCEPT !.attached = FALSE, !.removeCalls = @ + 1,
                   !.removedBy = "timer", !.timerPending = FALSE]
    ELSE [n EXCEPT !.timerPending = FALSE]

\* A close control that also cancelled the timer of its notification.
CloseControl_ClearsTimeout(n) ==
    [n EXCEPT !.attached = FALSE, !.removeCalls = @ + 1,
              !.removedBy = "close", !.timerPending = FALSE]

\* What the onclick of the close control does to its notification: the node
\* is removed, and nothing refers to the timer showNotification armed.
CloseControl(n) ==
    [n EXCEPT !.attached = FALSE, !.removeCalls = @ + 1,
              !.removedBy = "close"]

\* The notification node appended to document.body, with its timer armed.
\* owner and source record which call and which function emitted it,
\* removeCalls and removedBy how often and by what it was removed.
showNotification(notifs, message, type, owner, source) ==
    Append(notifs, [message |-> message, type |-> type,
                    className |-> <<"notification", type>>, attached |-> TRUE,
                    timerPending |-> TRUE, removeCalls |-> 0,
                    removedBy |-> "none",
                    owner |-> owner, source |-> source])

----------------------------------------------------------------------------
(* Utils.ajax: building and dispatching the request *)

GET == <<"G", "E", "T">>

POST == <<"P", "O", "S", "T">>

XMLHttpRequest == <<"XMLHttpRequest">>

ApplicationJson == <<"application/json">>

defaultOptions ==
    [method |-> GET, headers |-> ("X-Requested-With" :> XMLHttpRequest)]

\* { ...defaultOptions, ...options }: a property of options replaces the
\* property of the same name of defaultOptions as a whole.
FinalOptions(options) == options @@ defaultOptions

\* The condition under which ajax looks the token up.
IsCsrfMethod(method) == toUpperCase(method) = POST

\* Variant: the header is set without testing the token that was looked up.
RequestHeaders_Unchecked(finalOptions, csrfToken) ==
    IF IsCsrfMethod(finalOptions.method)
    THEN ("X-CSRFToken" :> (IF csrfToken.isNull THEN <<"null">> ELSE csrfToken.str))
         @@ finalOptions.headers
    ELSE finalOptions.headers

\* finalOptions.headers after the CSRF step.
RequestHeaders(finalOptions, csrfToken) ==
    IF IsCsrfMethod(finalOptions.method) /\ Truthy(csrfToken)
    THEN ("X-CSRFToken" :> csrfToken.str) @@ finalOptions.headers
    ELSE finalOptions.headers

\* The request ajax hands to fetch, how many times it calls fetch, and what
\* getCsrfToken returned when ajax called it.
ajax(url, options, docCookie, field) ==
    LET finalOptions == FinalOptions(options)
        csrfToken == getCsrfToken(docCookie, field)
    IN  [url |-> url,
         method |-> finalOptions.method,
         headers |-> RequestHeaders(finalOptions, csrfToken),
         lookup |-> IF IsCsrfMethod(finalOptions.method)
                    THEN [called |-> TRUE, token |-> csrfToken]
                    ELSE [called |-> FALSE, token |-> Null],
         body |-> IF "body" \in DOMAIN finalOptions
                  THEN finalOptions.body ELSE <<>>,
         fetches |-> 1]

\* response.ok
ResponseOk(status) == status >= 200 /\ status <= 299

\* Parsed response bodies: JSON null, or an object with the fields the
\* helpers read (error is Null when the object has no such field).
NoBody == [kind |-> "none", success |-> FALSE, error |-> Null, cart_count |-> 0]

JsonNull == [kind |-> "null", success |-> FALSE, error |-> Null, cart_count |-> 0]

JsonObject(success, error, cart_count) ==
    [kind |-> "object", success |-> success, error |-> error,
     cart_count |-> cart_count]

\* A call of ajax, addToCart or updateStatus, from the moment fetch is called.
\*   pc        fetching (fetch pending), parsing (response.json() pending),
\*             settled
\*   ajaxState the promise ajax returned; state the promise the helper returned
\*   failure   why ajax's promise rejected, when it did
NewCall(kind, request, hasCallback, successMessage) ==
    [kind |-> kind, request |-> request, hasCallback |-> hasCallback,
     successMessage |-> successMessage,
     pc |-> "fetching", ajaxState |-> "pending", state |-> "pending",
     failure |-> "none", value |-> NoBody, callbackArgs |-> <<>>]

----------------------------------------------------------------------------
(* Utils.updateCartBadge, Utils.addToCart, Utils.updateStatus: handlers *)

\* Variant: the badge's visibility is set but not its text.
updateCartBadge_DisplayOnly(badge, count) ==
    IF badge.present
    THEN [badge EXCEPT !.display = IF count > 0 THEN "inline" ELSE "none"]
    ELSE badge

updateCartBadge(badge, count) ==
    IF badge.present
    THEN [badge EXCEPT !.textContent = NumberToString(count),
                       !.display = IF count > 0 THEN "inline" ELSE "none"]
    ELSE badge

\* Variant: the failure branch ignores response.error.
addToCartThenNote_Generic(response) ==
    IF response.success
    THEN [message |-> MsgAddedToCart, type |-> "success"]
    ELSE [message |-> MsgAddFailed, type |-> "error"]

\* The notification addToCart's then-handler emits for a parsed object.
addToCartThenNote(response) ==
    IF response.success
    THEN [message |-> MsgAddedToCart, type |-> "success"]
    ELSE [message |-> IF Truthy(response.error) THEN response.error.str
                      ELSE MsgAddFailed,
          type |-> "error"]

\* Variant: the then-handler applies a response only while the badge shows
\* what the server rendered.
addToCartThen_FirstOnly(response, badge) ==
    IF response.kind = "null"
    THEN [throws |-> TRUE, badge |-> badge, notes |-> <<>>]
    ELSE [throws |-> FALSE,
          badge |-> IF response.success /\ badge.textContent = <<"3">>
                    THEN updateCartBadge(badge, response.cart_count)
                    ELSE badge,
          notes |-> <<addToCartThenNote(response)>>]

\* The then-handler of addToCart on the value ajax resolved with: reading
\* response.success of null throws; otherwise the badge and the notification.
addToCartThen(response, badge) ==
    IF response.kind = "null"
    THEN [throws |-> TRUE, badge |-> badge, notes |-> <<>>]
    ELSE [throws |-> FALSE,
          badge |-> IF response.success
                    THEN updateCartBadge(badge, response.cart_count)
                    ELSE badge,
          notes |-> <<addToCartThenNote(response)>>]

\* The catch-handler of addToCart: what it notifies.
addToCartCatchNotes == <<[message |-> MsgAddFailedRetry, type |-> "error"]>>

\* Variant: the catch-handler of ajax rethrows without notifying.
ajaxCatchNotes_Silent == <<>>

\* The catch-handler of ajax: what it notifies.
ajaxCatchNotes == <<[message |-> MsgRequestFailed, type |-> "error"]>>

\* Variant: the then-handler throws when the response reports a failure.
updateStatusThenState_Throws(response) ==
    IF response.kind = "null" \/ ~response.success THEN "rejected" ELSE "resolved"

\* The then-handler of updateStatus: the state of the returned promise.
updateStatusThenState(response) ==
    IF response.kind = "null" THEN "rejected" ELSE "resolved"

\* The then-handler of updateStatus: what it notifies.
updateStatusThenNotes(response, successMessage) ==
    IF response.kind = "null" THEN <<>>
    ELSE IF response.success
    THEN <<[message |-> successMessage, type |-> "success"]>>
    ELSE <<[message |-> IF Truthy(response.error) THEN response.error.str
                        ELSE MsgOperationFailed,
            type |-> "error"]>>

\* showNotification for each note in turn.
RECURSIVE Notify(_, _, _, _)
Notify(notifs, notes, owner, source) ==
    IF notes = <<>> THEN notifs
    ELSE Notify(showNotification(notifs, Head(notes).message, Head(notes).type,
                                 owner, source),
                Tail(notes), owner, source)

\* The promise chain of call c once ajax's own chain has settled: resolved
\* with body, or rejected for the reason failure (after ajax's catch ran).
\* Gives the call, the badge, the notifications and whether reload was asked.
SettleChain(c, ajaxResolved, failure, body) ==
    LET call == calls[c]
        afterAjax == IF ajaxResolved THEN notifications
                     ELSE Notify(notifications, ajaxCatchNotes, c, "ajax")
        settled == [call EXCEPT !.pc = "settled",
                        !.ajaxState = IF ajaxResolved THEN "resolved" ELSE "rejected",
                        !.failure = failure,
                        !.value = IF ajaxResolved THEN body ELSE NoBody]
        thenA == addToCartThen(body, cartBadge)
    IN  CASE call.kind = "ajax" ->
               [call |-> [settled EXCEPT !.state = settled.ajaxState],
                badge |-> cartBadge, notifs |-> afterAjax, reload |-> FALSE]
          [] call.kind = "addToCart" ->
               IF ajaxResolved /\ ~thenA.throws
               THEN [call |-> [settled EXCEPT
                                 !.state = "resolved",
                                 !.callbackArgs = IF call.hasCallback
                                                  THEN Append(@, body.success)
                                                  ELSE @],
                     badge |-> thenA.badge,
                     notifs |-> Notify(afterAjax, thenA.notes, c, "addToCart"),
                     reload |-> FALSE]
               ELSE [call |-> [settled EXCEPT
                                 !.state = "rejected",
                                 !.failure = IF ajaxResolved THEN "type" ELSE failure,
                                 !.callbackArgs = IF call.hasCallback
                                                  THEN Append(@, FALSE)
                                                  ELSE @],
                     badge |-> cartBadge,
                     notifs |-> Notify(afterAjax, addToCartCatchNotes, c, "addToCart"),
                     reload |-> FALSE]
          [] call.kind = "updateStatus" ->
               IF ajaxResolved
               THEN [call |-> [settled EXCEPT
                                 !.state = updateStatusThenState(body),
                                 !.failure = IF body.kind = "null" THEN "type" ELSE "none"],
                     badge |-> cartBadge,
                     notifs |-> Notify(afterAjax,
                                       updateStatusThenNotes(body, call.successMessage),
                                       c, "updateStatus"),
                     reload |-> body.kind = "object" /\ body.success]
               ELSE [call |-> [settled EXCEPT !.state = "rejected"],
                     badge |-> cartBadge, notifs |-> afterAjax, reload |-> FALSE]

----------------------------------------------------------------------------
(* Inputs of the operations *)

PUT == <<"P", "U", "T">>

PATCH == <<"P", "A", "T", "C", "H">>

DELETE == <<"D", "E", "L", "E", "T", "E">>

Methods == { POST, <<"p", "o", "s", "t">>, PUT, PATCH, DELETE }

\* The options a caller of ajax passes: none, a method, headers of its own,
\* or both.
AjaxOptions ==
    { <<>>, [headers |-> ("Content-Type" :> ApplicationJson)] }
    \cup { [method |-> m] : m \in Methods }
    \cup { [method |-> m, headers |-> ("Content-Type" :> ApplicationJson)] :
             m \in { POST } }

ProductIds == { 42 }

Quantities == { 1 }

StatusData == { <<[name |-> "status", value |-> <<"shipped">>]>> }

MsgStatusUpdated == <<"status updated">>

MsgOutOfStock == <<"out of stock">>

Statuses == { 200, 403, 500 }

CartCounts == { 0, 5, 12 }

ResponseBodies ==
    { JsonNull }
    \cup { JsonObject(TRUE, Null, n) : n \in CartCounts }
    \cup { JsonObject(FALSE, e, 5) : e \in { Null, Str(<<>>), Str(MsgOutOfStock) } }

Severities == { "info", "success", "error" }

----------------------------------------------------------------------------
(* static/js/frontend.js: toasts *)

\* The text of the product cards (in English here).
MsgToastAdded == <<"added to cart">>

\* bg-${type === 'success' ? 'success' : type === 'error' ? 'danger' : 'info'}
ToastBackground(type) ==
    IF type = "success" THEN "bg-success"
    ELSE IF type = "error" THEN "bg-danger" ELSE "bg-info"

ToastEmoji(type) ==
    IF type = "success" THEN "check mark"
    ELSE IF type = "error" THEN "cross mark" ELSE "information"

\* createToastContainer appends one more element with id toast-container to
\* document.body and returns it: it is the last of them.
createToastContainer(elements) ==
    [elements |-> elements + 1, container |-> elements + 1, created |-> TRUE]

\* A showToast that makes its container anew on every call.
toastContainer_AlwaysCreates(elements) == createToastContainer(elements)

\* document.getElementById('toast-container') || createToastContainer():
\* getElementById answers the first element with the id when there is one.
toastContainer(elements) ==
    IF elements > 0
    THEN [elements |-> elements, container |-> 1, created |-> FALSE]
    ELSE createToastContainer(elements)

\* The toast element showToast builds, shown by bootstrap.  type records the
\* argument of the call and createdContainer whether the call had to create
\* its container.
ToastElement(message, type, where) ==
    [message |-> message, type |-> type,
     className |-> <<"toast", ToastBackground(type)>>,
     emoji |-> ToastEmoji(type), parent |-> where.container,
     createdContainer |-> where.created,
     attached |-> TRUE, shown |-> TRUE]

\* A showToast that puts the new toast in place of the ones in the container.
showToast_Replaces(page, message, type) ==
    LET where == toastContainer(page.containerElements)
    IN  [containerElements |-> where.elements,
         toasts |-> Append([t \in DOMAIN page.toasts |->
                              [page.toasts[t] EXCEPT !.attached = FALSE]],
                           ToastElement(message, type, where))]

\* showToast(message, type): the page after the call.
showToast(page, message, type) ==
    LET where == toastContainer(page.containerElements)
    IN  [containerElements |-> where.elements,
         toasts |-> Append(page.toasts, ToastElement(message, type, where))]

\* The listener of hidden.bs.toast: toast.remove().
ToastHiddenListener(toast) == [toast EXCEPT !.attached = FALSE]

----------------------------------------------------------------------------
(* static/js/frontend.js: the add-to-cart buttons of the product cards *)

\* What a button shows: its own content, the spinner, the check mark.
CartIcon == <<"cart icon">>

Spinner == <<"spinner-border">>

CheckCircle == <<"bi-check-circle">>

DigitValue(ch) ==
    CASE ch = "0" -> 0 [] ch = "1" -> 1 [] ch = "2" -> 2 [] ch = "3" -> 3
      [] ch = "4" -> 4 [] ch = "5" -> 5 [] ch = "6" -> 6 [] ch = "7" -> 7
      [] ch = "8" -> 8 [] ch = "9" -> 9 [] OTHER -> 10

\* The value of the digits at the start of s, after the value acc of the
\* digits before them.
RECURSIVE LeadingDigits(_, _)
LeadingDigits(s, acc) ==
    IF s = <<>> \/ DigitValue(Head(s)) > 9 THEN acc
    ELSE LeadingDigits(Tail(s), acc * 10 + DigitValue(Head(s)))

\* parseInt(text) of a text without sign: NaN when no digit comes after the
\* leading blanks.
RECURSIVE parseInt(_)
parseInt(s) ==
    IF s # <<>> /\ Head(s) = " " THEN parseInt(Tail(s))
    ELSE IF s = <<>> \/ DigitValue(Head(s)) > 9
         THEN [nan |-> TRUE, value |-> 0]
         ELSE [nan |-> FALSE, value |-> LeadingDigits(s, 0)]

\* updateCartCounter(): the element .cart-counter after the call, and whether
\* a timer of its animation was set.
updateCartCounter(counter) ==
    IF counter.present
    THEN LET parsed == parseInt(counter.textContent)
             count == IF parsed.nan \/ parsed.value = 0 THEN 0 ELSE parsed.value
         IN  [counter |-> [counter EXCEPT !.textContent = NumberToString(count + 1),
                                          !.transform = "scale(1.3)"],
              timerSet |-> TRUE]
    ELSE [counter |-> counter, timerSet |-> FALSE]

\* A click listener that leaves the button enabled.
clickListener_StaysEnabled(button) ==
    [button |-> [button EXCEPT !.innerHTML = Spinner],
     originalHTML |-> button.innerHTML]

\* The click listener up to its setTimeout: the button after it, and the
\* originalHTML its closure keeps.
clickListener(button) ==
    [button |-> [button EXCEPT !.innerHTML = Spinner, !.disabled = TRUE],
     originalHTML |-> button.innerHTML]

\* The callback of the second timer (1500 ms), on the button.
restoreButton(button, originalHTML) ==
    [button EXCEPT !.innerHTML = originalHTML, !.disabled = FALSE]

----------------------------------------------------------------------------
(* debounce(func, wait), of the admin script and of FrontendUtils *)

\* clearTimeout(timeout): the timer the closure variable holds is cancelled
\* when it is still pending; timeout is undefined before the first invocation.
clearTimeout(ts, timeout) ==
    IF timeout \in DOMAIN ts THEN [ts EXCEPT ![timeout].pending = FALSE] ELSE ts

\* An executedFunction that sets its timer without clearing the one before.
executedFunction_NoClear(ts, args, time, wait) ==
    Append(ts, [args |-> args, set |-> time, due |-> time + wait,
                pending |-> TRUE])

\* executedFunction(...args) at the given time: the timers after it.  The new
\* timer carries the closure later, which holds args.
executedFunction(ts, args, time, wait) ==
    Append(clearTimeout(ts, Len(ts)),
           [args |-> args, set |-> time, due |-> time + wait,
            pending |-> TRUE])

\* later() of timer t, run by the clock: clearTimeout(timeout), func(...args).
later(ts, runs, t, time) ==
    [timers |-> clearTimeout([ts EXCEPT ![t].pending = FALSE], Len(ts)),
     funcRuns |-> Append(runs, [timer |-> t, args |-> ts[t].args,
                                time |-> time])]

----------------------------------------------------------------------------
(* The state machine *)

InitDebounceIdle ==
    /\ now = 0
    /\ timers = <<>>
    /\ funcRuns = <<>>

\* A page without product cards and without cart counter.
InitNoButtons ==
    /\ buttons = <<>>
    /\ clicks = <<>>
    /\ cartCounter = [present |-> FALSE, textContent |-> <<>>,
                      rendered |-> <<>>, transform |-> "none"]
    /\ counterTimers = 0

\* frontend.js before any of its handlers ran.
InitFrontend ==
    /\ containerElements = 0
    /\ toasts = <<>>
    /\ InitDebounceIdle
    /\ InitNoButtons

Init ==
    /\ cookieJar \in CookieJars
    /\ csrfField \in CsrfFields
    /\ cartBadge \in CartBadges
    /\ calls = <<>>
    /\ notifications = <<>>
    /\ forms = <<>>
    /\ reloadRequested = FALSE
    /\ callBudget = MaxCalls
    /\ InitFrontend

\* Some page script calls Utils.ajax(url, options).
CallAjax(options) ==
    /\ Len(calls) < callBudget
    /\ calls' = Append(calls, NewCall("ajax",
                                      ajax(<<"/api/">>, options, documentCookie, csrfField),
                                      FALSE, <<>>))
    /\ UNCHANGED <<frontendVars, callBudget, cookieJar, csrfField,
                   cartBadge, notifications, forms,
                   reloadRequested>>

\* Utils.addToCart(productId, quantity, callback) up to the pending fetch.
CallAddToCart(productId, quantity, hasCallback) ==
    /\ Len(calls) < callBudget
    /\ calls' = Append(calls,
         NewCall("addToCart",
                 ajax(<<"/products/cart/add/">> \o NumberToString(productId)
                        \o <<"/">>,
                      [method |-> POST,
                       headers |-> ("Content-Type" :> ApplicationJson),
                       body |-> <<"{\"quantity\":">> \o NumberToString(quantity)
                                  \o <<"}">>],
                      documentCookie, csrfField),
                 hasCallback, <<>>))
    /\ UNCHANGED <<frontendVars, callBudget, cookieJar, csrfField,
                   cartBadge, notifications, forms,
                   reloadRequested>>

\* The hidden form createCsrfForm builds.
createCsrfForm(field) ==
    IF field.present
    THEN <<[name |-> "csrfmiddlewaretoken", value |-> field.value]>>
    ELSE <<>>

\* Utils.updateStatus(url, data, successMessage) up to the pending fetch: the
\* form is filled, appended to document.body and sent as the request body.
CallUpdateStatus(data, successMessage) ==
    LET form == createCsrfForm(csrfField) \o data
    IN  /\ Len(calls) < callBudget
        /\ forms' = Append(forms, form)
        /\ calls' = Append(calls,
             NewCall("updateStatus",
                     ajax(<<"/status/">>, [method |-> POST, body |-> form],
                          documentCookie, csrfField),
                     FALSE, successMessage))
        /\ UNCHANGED <<frontendVars, callBudget, cookieJar, csrfField,
                       cartBadge, notifications,
                       reloadRequested>>

\* The promise chain of call c runs to its end.
Settle(c, ajaxResolved, failure, body) ==
    LET r == SettleChain(c, ajaxResolved, failure, body)
    IN  /\ calls' = [calls EXCEPT ![c] = r.call]
        /\ cartBadge' = r.badge
        /\ notifications' = r.notifs
        /\ reloadRequested' = (reloadRequested \/ r.reload)
        /\ UNCHANGED <<frontendVars, callBudget, cookieJar, csrfField, forms>>

\* fetch rejects: the network call itself failed.
FetchFails(c) ==
    /\ calls[c].pc = "fetching"
    /\ Settle(c, FALSE, "network", NoBody)

\* fetch resolves with a response of the given status: a non-success status
\* throws in ajax's then-handler, a success status starts response.json().
FetchResponds(c, status) ==
    /\ calls[c].pc = "fetching"
    /\ IF ResponseOk(status)
       THEN /\ calls' = [calls EXCEPT ![c].pc = "parsing"]
            /\ UNCHANGED <<frontendVars, callBudget, cookieJar, csrfField,
                           cartBadge, notifications, forms,
                           reloadRequested>>
       ELSE Settle(c, FALSE, "http", NoBody)

\* response.json() rejects: the body is not valid JSON.
JsonInvalid(c) ==
    /\ calls[c].pc = "parsing"
    /\ Settle(c, FALSE, "json", NoBody)

\* response.json() resolves with the parsed body.
JsonParsed(c, body) ==
    /\ calls[c].pc = "parsing"
    /\ Settle(c, TRUE, "none", body)

\* Some page script calls Utils.showNotification(message, type) itself.
ShowNotification(message, type) ==
    /\ Len(notifications) < MaxNotifications
    /\ notifications' = showNotification(notifications, message, type, 0, "direct")
    /\ UNCHANGED <<frontendVars, callBudget, cookieJar, csrfField,
                   cartBadge, calls, forms, reloadRequested>>

\* The 5-second timer of notification n fires.
NotificationTimer(n) ==
    /\ notifications[n].timerPending
    /\ notifications' = [notifications EXCEPT ![n] = TimerCallback(@)]
    /\ UNCHANGED <<frontendVars, callBudget, cookieJar, csrfField,
                   cartBadge, calls, forms, reloadRequested>>

\* The user clicks the close control of notification n, which is in the page
\* only while the notification is.
NotificationClose(n) ==
    /\ notifications[n].attached
    /\ notifications' = [notifications EXCEPT ![n] = CloseControl(@)]
    /\ UNCHANGED <<frontendVars, callBudget, cookieJar, csrfField,
                   cartBadge, calls, forms, reloadRequested>>

\* Some script of the page calls showToast(message, type).
ShowToast(message, type) ==
    LET page == showToast([containerElements |-> containerElements,
                           toasts |-> toasts], message, type)
    IN  /\ Len(toasts) < MaxToasts
        /\ containerElements' = page.containerElements
        /\ toasts' = page.toasts
        /\ UNCHANGED <<utilsVars, debounceVars, buttonVars>>

\* bootstrap has hidden toast t, because its delay of 3000 ms is over or
\* because the user clicked its data-bs-dismiss button, and fires
\* hidden.bs.toast on it: the listener runs.
ToastHidden(t) ==
    /\ toasts[t].shown
    /\ toasts' = [toasts EXCEPT ![t] =
                        ToastHiddenListener([@ EXCEPT !.shown = FALSE])]
    /\ UNCHANGED <<utilsVars, containerElements, debounceVars, buttonVars>>

\* The user clicks button b; a disabled button receives no click.
ClickAddToCart(b) ==
    LET r == clickListener(buttons[b])
    IN  /\ Len(clicks) < MaxClicks
        /\ ~buttons[b].disabled
        /\ buttons' = [buttons EXCEPT ![b] = r.button]
        /\ clicks' = Append(clicks, [button |-> b,
                                     originalHTML |-> r.originalHTML,
                                     timer |-> "first"])
        /\ UNCHANGED <<utilsVars, toastVars, debounceVars, cartCounter,
                       counterTimers>>

\* The first timer (1000 ms) of click k fires: check mark, toast, counter, and
\* the second timer is set.
FirstTimerFires(k) ==
    LET b == clicks[k].button
        page == showToast([containerElements |-> containerElements,
                           toasts |-> toasts], MsgToastAdded, "success")
        r == updateCartCounter(cartCounter)
    IN  /\ clicks[k].timer = "first"
        /\ buttons' = [buttons EXCEPT ![b].innerHTML = CheckCircle]
        /\ containerElements' = page.containerElements
        /\ toasts' = page.toasts
        /\ cartCounter' = r.counter
        /\ counterTimers' = IF r.timerSet THEN counterTimers + 1
                            ELSE counterTimers
        /\ clicks' = [clicks EXCEPT ![k].timer = "second"]
        /\ UNCHANGED <<utilsVars, debounceVars>>

\* The second timer (1500 ms) of click k fires.
SecondTimerFires(k) ==
    LET b == clicks[k].button
    IN  /\ clicks[k].timer = "second"
        /\ buttons' = [buttons EXCEPT
                         ![b] = restoreButton(@, clicks[k].originalHTML)]
        /\ clicks' = [clicks EXCEPT ![k].timer = "none"]
        /\ UNCHANGED <<utilsVars, toastVars, debounceVars, cartCounter,
                       counterTimers>>

\* A timer (200 ms) of the animation of the cart counter fires.
CounterTimerFires ==
    /\ counterTimers > 0
    /\ cartCounter' = [cartCounter EXCEPT !.transform = "scale(1)"]
    /\ counterTimers' = counterTimers - 1
    /\ UNCHANGED <<utilsVars, toastVars, debounceVars, buttons, clicks>>

\* A timer that is due runs before the clock moves on and before an event
\* that arrives at that moment is handled.
TimerDue == \E t \in DOMAIN timers : timers[t].pending /\ timers[t].due <= now

\* An input event: the debounced function is invoked with args.
Invoke(args) ==
    /\ Len(timers) < MaxInvocations
    /\ now + Wait <= MaxTime
    /\ ~TimerDue
    /\ timers' = executedFunction(timers, args, now, Wait)
    /\ UNCHANGED <<utilsVars, toastVars, buttonVars, now, funcRuns>>

\* Timer t is due and its callback later runs.
TimerFires(t) ==
    LET r == later(timers, funcRuns, t, now)
    IN  /\ timers[t].pending
        /\ timers[t].due <= now
        /\ timers' = r.timers
        /\ funcRuns' = r.funcRuns
        /\ UNCHANGED <<utilsVars, toastVars, buttonVars, now>>

\* Time passes.
Tick ==
    /\ now < MaxTime
    /\ ~TimerDue
    /\ now' = now + 1
    /\ UNCHANGED <<utilsVars, toastVars, buttonVars, timers, funcRuns>>

Next ==
    \/ \E options \in AjaxOptions : CallAjax(options)
    \/ \E p \in ProductIds, q \in Quantities, cb \in BOOLEAN :
         CallAddToCart(p, q, cb)
    \/ \E d \in StatusData : CallUpdateStatus(d, MsgStatusUpdated)
    \/ \E c \in DOMAIN calls : FetchFails(c)
    \/ \E c \in DOMAIN calls, status \in Statuses : FetchResponds(c, status)
    \/ \E c \in DOMAIN calls : JsonInvalid(c)
    \/ \E c \in DOMAIN calls, body \in ResponseBodies : JsonParsed(c, body)
    \/ \E n \in DOMAIN notifications : NotificationTimer(n)
    \/ \E n \in DOMAIN notifications : NotificationClose(n)

Spec == Init /\ [][Next]_vars

\* The notifications alone: a page whose scripts call showNotification, the
\* timers and the user.
InitUtilsIdle ==
    /\ cookieJar = <<>>
    /\ csrfField = [present |-> FALSE, value |-> <<>>]
    /\ cartBadge = [present |-> FALSE, textContent |-> <<>>, display |-> "none"]
    /\ calls = <<>>
    /\ notifications = <<>>
    /\ forms = <<>>
    /\ reloadRequested = FALSE
    /\ callBudget = 0

InitNotify == InitUtilsIdle /\ InitFrontend

NextNotify ==
    \/ \E m \in { MsgOutOfStock }, t \in Severities : ShowNotification(m, t)
    \/ \E n \in DOMAIN notifications : NotificationTimer(n)
    \/ \E n \in DOMAIN notifications : NotificationClose(n)

NotifySpec == InitNotify /\ [][NextNotify]_vars

\* Timers fire: a pending setTimeout callback is eventually run.
FairNotifySpec ==
    NotifySpec /\ \A n \in 1..MaxNotifications :
                     WF_vars(n \in DOMAIN notifications /\ NotificationTimer(n))

\* Utils.addToCart alone, on a page with a CSRF cookie and a cart badge, whose
\* scripts call it several times before the answers are in.
InitCart ==
    /\ cookieJar = <<SessionCookie, [name |-> CsrfCookieName, value |-> TokenC]>>
    /\ csrfField = [present |-> FALSE, value |-> <<>>]
    /\ cartBadge = [present |-> TRUE, textContent |-> <<"3">>, display |-> "inline"]
    /\ calls = <<>>
    /\ notifications = <<>>
    /\ forms = <<>>
    /\ reloadRequested = FALSE
    /\ callBudget = MaxCartCalls
    /\ InitFrontend

NextCart ==
    \/ \E p \in ProductIds, q \in Quantities, cb \in BOOLEAN :
         CallAddToCart(p, q, cb)
    \/ \E c \in DOMAIN calls : FetchFails(c)
    \/ \E c \in DOMAIN calls, status \in Statuses : FetchResponds(c, status)
    \/ \E c \in DOMAIN calls, body \in ResponseBodies : JsonParsed(c, body)

CartSpec == InitCart /\ [][NextCart]_vars

\* A debounced function alone: the events that invoke it, its timers, the
\* clock.
InitDebounce == InitUtilsIdle /\ InitFrontend

NextDebounce ==
    \/ \E args \in { <<"a">>, <<"b">> } : Invoke(args)
    \/ \E t \in DOMAIN timers : TimerFires(t)
    \/ Tick

DebounceSpec == InitDebounce /\ [][NextDebounce]_vars

\* The clock runs and due timers fire.
FairDebounceSpec ==
    /\ DebounceSpec
    /\ WF_vars(Tick)
    /\ \A t \in 1..MaxInvocations :
          WF_vars(t \in DOMAIN timers /\ TimerFires(t))

\* The elements .cart-counter a page may have: none, or one showing nothing,
\* 0 or 9.
CartCounters ==
    { [present |-> FALSE, textContent |-> <<>>, rendered |-> <<>>,
       transform |-> "none"] }
    \cup { [present |-> TRUE, textContent |-> text, rendered |-> text,
            transform |-> "none"] : text \in { <<>>, <<"0">>, <<"9">> } }

\* The product cards alone: their buttons, the user, the timers.
InitButtons ==
    /\ InitUtilsIdle
    /\ containerElements = 0
    /\ toasts = <<>>
    /\ InitDebounceIdle
    /\ buttons = [b \in 1..NumButtons |->
                    [innerHTML |-> CartIcon, disabled |-> FALSE]]
    /\ clicks = <<>>
    /\ cartCounter \in CartCounters
    /\ counterTimers = 0

NextButtons ==
    \/ \E b \in DOMAIN buttons : ClickAddToCart(b)
    \/ \E k \in DOMAIN clicks : FirstTimerFires(k)
    \/ \E k \in DOMAIN clicks : SecondTimerFires(k)
    \/ CounterTimerFires

ButtonSpec == InitButtons /\ [][NextButtons]_vars

\* Timers fire.
FairButtonSpec ==
    /\ ButtonSpec
    /\ \A k \in 1..MaxClicks :
          /\ WF_vars(k \in DOMAIN clicks /\ FirstTimerFires(k))
          /\ WF_vars(k \in DOMAIN clicks /\ SecondTimerFires(k))

\* Both renderers on one page, which may or may not carry a toast container
\* in its markup.
InitRender ==
    /\ InitUtilsIdle
    /\ containerElements \in {0, 1}
    /\ toasts = <<>>
    /\ InitDebounceIdle
    /\ InitNoButtons

NextToast ==
    \/ \E t \in Severities : ShowToast(MsgToastAdded, t)
    \/ \E t \in DOMAIN toasts : ToastHidden(t)

NextRender == NextNotify \/ NextToast

RenderSpec == InitRender /\ [][NextRender]_vars

----------------------------------------------------------------------------
(* Vocabulary of the properties *)

\* The calls that went through Utils.ajax.
AjaxCalls == { c \in DOMAIN calls : calls[c].request.fetches > 0 }

Headers(c) == calls[c].request.headers

\* The verbs of a mutating request.
MutatingVerbs == { POST, PUT, PATCH, DELETE }

IsMutating(c) == toUpperCase(calls[c].request.method) \in MutatingVerbs

\* The values of the page's csrftoken cookies, read from the jar itself.
CsrfCookieValues ==
    { cookieJar[i].value : i \in { j \in DOMAIN cookieJar :
                                     cookieJar[j].name = CsrfCookieName } }

\* The token a mutating request should carry: that of the cookie when the
\* cookie holds one, else that of the hidden field when the field holds one.
DiscoverableTokens ==
    IF CsrfCookieValues \ { <<>> } # {}
    THEN CsrfCookieValues \ { <<>> }
    ELSE IF csrfField.present /\ csrfField.value # <<>>
    THEN { csrfField.value }
    ELSE {}

\* The notifications call c caused, by severity and by emitting function.
NotesOf(c, type) ==
    { i \in DOMAIN notifications :
        notifications[i].owner = c /\ notifications[i].type = type }

NotesFrom(c, source) ==
    { i \in DOMAIN notifications :
        notifications[i].owner = c /\ notifications[i].source = source }

TransportFailures == { "network", "http", "json" }

----------------------------------------------------------------------------
(* Properties of the request Utils.ajax dispatches *)

\* C1: every request dispatched by Utils.ajax with a mutating verb (POST,
\* PUT, PATCH, DELETE, in any letter case) while a CSRF token is discoverable
\* in the cookie or the hidden field carries that token in X-CSRFToken.
C1_MutatingRequestCarriesToken ==
    \A c \in AjaxCalls :
        (IsMutating(c) /\ DiscoverableTokens # {}) =>
            /\ "X-CSRFToken" \in DOMAIN Headers(c)
            /\ Headers(c)["X-CSRFToken"] \in DiscoverableTokens

\* C2: every request dispatched by Utils.ajax carries X-Requested-With:
\* XMLHttpRequest, also when the caller supplies headers of its own.
C2_AlwaysRequestedWith ==
    \A c \in AjaxCalls :
        /\ "X-Requested-With" \in DOMAIN Headers(c)
        /\ Headers(c)["X-Requested-With"] = XMLHttpRequest

\* C3: a call of Utils.ajax that fails (non-success status, invalid JSON,
\* network error) emits exactly one error notification and its promise
\* rejects; one that gets a success status and valid JSON emits none and its
\* promise resolves with the parsed body; nothing is emitted before that.
C3_AjaxOneNotificationPerFailure ==
    \A c \in AjaxCalls :
        LET call == calls[c]
            own == NotesFrom(c, "ajax")
        IN  /\ call.pc # "settled" =>
                 call.ajaxState = "pending" /\ own = {}
            /\ (call.pc = "settled" /\ call.failure \in TransportFailures) =>
                 /\ call.ajaxState = "rejected"
                 /\ Cardinality(own) = 1
                 /\ \A i \in own : /\ notifications[i].type = "error"
                                   /\ notifications[i].message = MsgRequestFailed
                 /\ call.kind = "ajax" =>
                      /\ call.state = "rejected"
                      /\ NotesOf(c, "error") = own
                      /\ NotesOf(c, "success") = {}
            /\ (call.pc = "settled" /\ call.failure \notin TransportFailures) =>
                 /\ call.ajaxState = "resolved"
                 /\ call.value \in ResponseBodies
                 /\ own = {}
                 /\ call.kind = "ajax" =>
                      /\ call.state = "resolved"
                      /\ NotesOf(c, "error") = {}
                      /\ NotesOf(c, "success") = {}

\* A direct call of ajax was rejected because the body was not valid JSON.
C3_Witness ==
    \E c \in AjaxCalls :
        /\ calls[c].kind = "ajax"
        /\ calls[c].failure = "json"
        /\ calls[c].state = "rejected"
        /\ Cardinality(NotesOf(c, "error")) = 1

\* C4: a mutating call of Utils.ajax on a page with no csrftoken cookie and
\* no csrfmiddlewaretoken field is dispatched exactly once, without an
\* X-CSRFToken header, and is rejected or notified about only for a
\* transport failure, never for the missing token.
C4_NoTokenStillDispatched ==
    \A c \in AjaxCalls :
        (IsMutating(c) /\ CsrfCookieValues = {} /\ ~csrfField.present) =>
            /\ calls[c].request.fetches = 1
            /\ "X-CSRFToken" \notin DOMAIN Headers(c)
            /\ calls[c].request.lookup.called => calls[c].request.lookup.token = Null
            /\ calls[c].pc # "settled" =>
                 /\ calls[c].state = "pending"
                 /\ NotesOf(c, "error") = {}
            /\ calls[c].ajaxState = "rejected" =>
                 calls[c].failure \in TransportFailures
            /\ NotesFrom(c, "ajax") # {} =>
                 calls[c].failure \in TransportFailures

\* A POST without any discoverable token was answered and resolved.
C4_Witness ==
    \E c \in AjaxCalls :
        /\ calls[c].request.method = POST
        /\ CsrfCookieValues = {} /\ ~csrfField.present
        /\ "X-CSRFToken" \notin DOMAIN Headers(c)
        /\ calls[c].state = "resolved"
        /\ NotesOf(c, "error") = {}

\* C5: getCsrfToken returns the full cookie token when the csrftoken cookie
\* holds one, otherwise the value of the hidden field when the field exists
\* (also when the cookie is there with an empty value), and null only when
\* neither source holds a token.
C5_CookieFirstThenField ==
    \A c \in AjaxCalls :
        calls[c].request.lookup.called =>
            LET token == calls[c].request.lookup.token
            IN  IF CsrfCookieValues \ { <<>> } # {}
                THEN ~token.isNull /\ token.str \in CsrfCookieValues
                ELSE IF csrfField.present
                THEN token = Str(csrfField.value)
                ELSE IF CsrfCookieValues = {}
                THEN token = Null
                ELSE token \in { Null, Str(<<>>) }

----------------------------------------------------------------------------
(* Properties of Utils.addToCart and Utils.updateStatus *)

\* The text a badge shows for each count the server may report.
ExpectedText(n) ==
    CASE n = 0 -> <<"0">> [] n = 5 -> <<"5">> [] n = 12 -> <<"1", "2">>

\* Call c is an addToCart (or updateStatus) whose request was answered with a
\* success status and a JSON object.
Answered(c, kind) ==
    /\ calls[c].kind = kind
    /\ calls[c].pc = "settled"
    /\ calls[c].ajaxState = "resolved"
    /\ calls[c].value.kind = "object"

\* The step in which the promise chain of call c runs after response.json()
\* resolved with an object.
AnsweredStep(c, kind) ==
    /\ calls[c].kind = kind
    /\ calls[c].pc = "parsing"
    /\ calls'[c].pc = "settled"
    /\ calls'[c].value.kind = "object"

C6_Notifications ==
    \A c \in DOMAIN calls :
        (Answered(c, "addToCart") /\ calls[c].value.success) =>
            /\ Cardinality(NotesOf(c, "success")) = 1
            /\ \A i \in NotesOf(c, "success") :
                 notifications[i].message = MsgAddedToCart
            /\ NotesOf(c, "error") = {}
            /\ NotesOf(c, "info") = {}

C6_BadgeStep ==
    \A c \in DOMAIN calls :
        (AnsweredStep(c, "addToCart") /\ calls'[c].value.success) =>
            /\ cartBadge'.present = cartBadge.present
            /\ cartBadge.present =>
                 /\ cartBadge'.textContent = ExpectedText(calls'[c].value.cart_count)
                 /\ cartBadge'.display =
                      IF calls'[c].value.cart_count > 0 THEN "inline" ELSE "none"

\* C6: when the request of addToCart resolves with {success: true,
\* cart_count: n}, the cart badge of the page shows the text n right after
\* (shown inline for n > 0, hidden for n = 0, as updateCartBadge sets it), and
\* that call has emitted exactly one success notification and no error one.
C6_SuccessUpdatesBadgeAndNotifies ==
    []C6_Notifications /\ [][C6_BadgeStep]_vars

\* An addToCart was answered with cart_count 12 and the badge shows "12".
C6_Witness ==
    \E c \in DOMAIN calls :
        /\ Answered(c, "addToCart")
        /\ calls[c].value.success
        /\ calls[c].value.cart_count = 12
        /\ cartBadge.present
        /\ cartBadge.textContent = <<"1", "2">>
        /\ Cardinality(NotesOf(c, "success")) = 1

C7_Notifications ==
    \A c \in DOMAIN calls :
        (Answered(c, "addToCart") /\ ~calls[c].value.success) =>
            /\ Cardinality(NotesOf(c, "error")) = 1
            /\ \A i \in NotesOf(c, "error") :
                 notifications[i].message =
                     IF calls[c].value.error \in { Null, Str(<<>>) }
                     THEN MsgAddFailed
                     ELSE calls[c].value.error.str
            /\ NotesOf(c, "success") = {}

C7_BadgeStep ==
    \A c \in DOMAIN calls :
        (AnsweredStep(c, "addToCart") /\ ~calls'[c].value.success) =>
            cartBadge' = cartBadge

\* C7: when the request of addToCart resolves with {success: false, error:
\* msg}, that call emits exactly one error notification whose text is msg
\* (the generic text when msg is absent or empty) and no success
\* notification, and the badge's text and visibility stay as they were.
C7_FailureNotifiesAndKeepsBadge ==
    []C7_Notifications /\ [][C7_BadgeStep]_vars

\* An addToCart was answered with {success: false, error: "out of stock"}.
C7_Witness ==
    \E c \in DOMAIN calls :
        /\ Answered(c, "addToCart")
        /\ ~calls[c].value.success
        /\ calls[c].value.error = Str(MsgOutOfStock)
        /\ cartBadge.present
        /\ \E i \in NotesOf(c, "error") : notifications[i].message = MsgOutOfStock

\* C8: when the request of addToCart fails at the transport level (network
\* failure or non-success status), exactly one error notification is emitted
\* for that call and the returned promise rejects.
C8_OneNotificationPerTransportFailure ==
    \A c \in DOMAIN calls :
        (/\ calls[c].kind = "addToCart"
         /\ calls[c].pc = "settled"
         /\ calls[c].failure \in { "network", "http" }) =>
            /\ calls[c].state = "rejected"
            /\ Cardinality(NotesOf(c, "error")) = 1

\* C9 as stated: an application-reported failure (success status, JSON body
\* with success false) rejects the promise addToCart and updateStatus
\* return, and is notified.
C9_ApplicationFailureRejects ==
    \A c \in DOMAIN calls :
        ((Answered(c, "addToCart") \/ Answered(c, "updateStatus"))
         /\ ~calls[c].value.success) =>
            /\ calls[c].state = "rejected"
            /\ NotesOf(c, "error") # {}

\* C9 as amended: both error categories end in at least one error
\* notification; a transport failure rejects the promise addToCart and
\* updateStatus return, an application-reported failure resolves it with the
\* parsed response.
C9_ApplicationFailureResolves ==
    \A c \in DOMAIN calls :
        LET call == calls[c]
        IN  (call.kind \in { "addToCart", "updateStatus" } /\ call.pc = "settled") =>
              /\ call.failure \in TransportFailures =>
                   /\ call.state = "rejected"
                   /\ NotesOf(c, "error") # {}
              /\ (call.ajaxState = "resolved" /\ call.value.kind = "object"
                  /\ ~call.value.success) =>
                   /\ call.state = "resolved"
                   /\ call.failure = "none"
                   /\ Cardinality(NotesOf(c, "error")) = 1
                   /\ NotesOf(c, "success") = {}

\* An updateStatus was answered with success false: notified, and resolved.
C9_Witness ==
    \E c \in DOMAIN calls :
        /\ Answered(c, "updateStatus")
        /\ ~calls[c].value.success
        /\ calls[c].state = "resolved"
        /\ NotesOf(c, "error") # {}

----------------------------------------------------------------------------
(* Properties of Utils.showNotification *)

C10_RemovedAtMostOnce ==
    \A n \in DOMAIN notifications :
        /\ notifications[n].attached =>
             notifications[n].removeCalls = 0 /\ notifications[n].timerPending
        /\ ~notifications[n].attached => notifications[n].removeCalls = 1

C10_TimerStep ==
    \A n \in DOMAIN notifications :
        (notifications[n].timerPending /\ ~notifications'[n].timerPending) =>
            /\ ~notifications'[n].attached
            /\ notifications'[n].removeCalls = 1
            /\ ~notifications[n].attached => notifications'[n].removedBy = "close"

C10_GoneForGood(n) ==
    /\ n \in DOMAIN notifications
    /\ ~notifications[n].attached
    /\ ~notifications[n].timerPending
    /\ notifications[n].removeCalls = 1

\* C10: every notification showNotification creates is removed from the page
\* exactly once: by its timer when it is still attached then; when the user
\* closed it before, the timer callback removes nothing more; and with timers
\* firing, every notification is eventually off the page for good.
C10_RemovedExactlyOnce ==
    /\ []C10_RemovedAtMostOnce
    /\ [][C10_TimerStep]_vars
    /\ \A n \in 1..MaxNotifications :
         (n \in DOMAIN notifications) ~> []C10_GoneForGood(n)

\* A notification the user closed, whose timer has fired since.
C10_Witness ==
    \E n \in DOMAIN notifications :
        /\ notifications[n].removedBy = "close"
        /\ ~notifications[n].timerPending
        /\ notifications[n].removeCalls = 1

\* No notification the user closed has its auto-dismiss timer still pending.
C11_CloseCancelsTimer ==
    \A n \in DOMAIN notifications :
        notifications[n].removedBy = "close" => ~notifications[n].timerPending

\* The close control leaves the timer armed, and the callback of a timer that
\* outlived its notification only finds the node detached.
C11_CloseStep ==
    \A n \in DOMAIN notifications :
        /\ (notifications[n].attached /\ ~notifications'[n].attached
              /\ notifications'[n].removedBy = "close") =>
               notifications'[n].timerPending
        /\ (notifications[n].removedBy = "close"
              /\ notifications[n].timerPending
              /\ ~notifications'[n].timerPending) =>
               notifications'[n] =
                   [notifications[n] EXCEPT !.timerPending = FALSE]

C11_ClosedTimerPending(n) ==
    /\ n \in DOMAIN notifications
    /\ notifications[n].removedBy = "close"
    /\ notifications[n].timerPending

C11_ClosedTimerRan(n) ==
    /\ n \in DOMAIN notifications
    /\ notifications[n].removedBy = "close"
    /\ ~notifications[n].timerPending
    /\ notifications[n].removeCalls = 1

\* C11 (as the code has it): closing a notification of Utils.showNotification
\* by hand does not cancel its 5-second timer; the timer stays pending, its
\* callback still runs once, and that run finds the node detached and changes
\* nothing on the page.
C11_TimerOutlivesClose ==
    /\ [][C11_CloseStep]_vars
    /\ \A n \in 1..MaxNotifications :
         C11_ClosedTimerPending(n) ~> C11_ClosedTimerRan(n)

\* A notification the user closed while its timer is still pending, next to
\* one still on the page.
C11_Witness ==
    \E n, k \in DOMAIN notifications :
        /\ notifications[n].removedBy = "close"
        /\ notifications[n].timerPending
        /\ notifications[k].attached

\* The style each renderer gives each severity.
C12_Style(renderer, severity) ==
    CASE renderer = "showNotification" /\ severity = "info" ->
           <<"notification", "info">>
      [] renderer = "showNotification" /\ severity = "success" ->
           <<"notification", "success">>
      [] renderer = "showNotification" /\ severity = "error" ->
           <<"notification", "error">>
      [] renderer = "showToast" /\ severity = "info" -> <<"toast", "bg-info">>
      [] renderer = "showToast" /\ severity = "success" ->
           <<"toast", "bg-success">>
      [] renderer = "showToast" /\ severity = "error" -> <<"toast", "bg-danger">>

\* The nodes of the page that a step changed.
C12_ChangedNotifications ==
    { n \in DOMAIN notifications : notifications'[n] # notifications[n] }

C12_ChangedToasts == { t \in DOMAIN toasts : toasts'[t] # toasts[t] }

\* A call of a renderer: one node more, the others as they were, the new one
\* in the page with the message and the style of its severity.
C12_CallStep ==
    LET newNotifications == Len(notifications') - Len(notifications)
        newToasts == Len(toasts') - Len(toasts)
    IN  /\ Len(notifications') >= Len(notifications)
        /\ Len(toasts') >= Len(toasts)
        /\ newNotifications + newToasts <= 1
        /\ newNotifications + newToasts = 1 =>
              C12_ChangedNotifications = {} /\ C12_ChangedToasts = {}
        /\ newNotifications = 1 =>
              LET node == notifications'[Len(notifications')]
              IN  /\ node.attached
                  /\ node.message = MsgOutOfStock
                  /\ node.type \in Severities
                  /\ node.className = C12_Style("showNotification", node.type)
        /\ newToasts = 1 =>
              LET node == toasts'[Len(toasts')]
              IN  /\ node.attached
                  /\ node.message = MsgToastAdded
                  /\ node.type \in Severities
                  /\ node.className = C12_Style("showToast", node.type)

\* A removal: one node leaves the page, by its own timer or close control
\* (notifications) or by its own hidden.bs.toast (toasts); no other node
\* changes in that step.
C12_RemovalStep ==
    /\ \A n \in DOMAIN notifications :
          (notifications[n].attached /\ ~notifications'[n].attached) =>
             /\ notifications'[n].removedBy \in {"timer", "close"}
             /\ C12_ChangedNotifications = {n}
             /\ C12_ChangedToasts = {}
    /\ \A t \in DOMAIN toasts :
          (toasts[t].attached /\ ~toasts'[t].attached) =>
             /\ toasts[t].shown /\ ~toasts'[t].shown
             /\ C12_ChangedToasts = {t}
             /\ C12_ChangedNotifications = {}

\* C12: for every severity in {info, success, error}, each call of
\* Utils.showNotification or showToast appends exactly one new node with the
\* given message and the style of that severity and leaves every node on the
\* page in place; nodes leave the page one at a time, each by its own timer
\* or close control.
C12_AppendsOneStyledNode == [][C12_CallStep /\ C12_RemovalStep]_vars

\* Two notifications and two toasts of different severities on the page at
\* once, the error toast among them.
C12_Witness ==
    /\ Len(notifications) = 2 /\ Len(toasts) = 2
    /\ \A n \in 1..2 : notifications[n].attached /\ toasts[n].attached
    /\ notifications[1].type # notifications[2].type
    /\ toasts[1].type = "info" /\ toasts[2].type = "error"

\* At most one element with id toast-container, exactly one once a toast was
\* shown, made by at most one call, and every toast a child of it.
C13_OneContainer ==
    /\ containerElements <= 1
    /\ toasts # <<>> => containerElements = 1
    /\ \A t \in DOMAIN toasts : toasts[t].parent = 1
    /\ Cardinality({ t \in DOMAIN toasts : toasts[t].createdContainer }) <= 1
    /\ \A t \in DOMAIN toasts : toasts[t].createdContainer => t = 1

\* showToast creates no container on a page that has one, and the one it
\* creates on a page without is there to stay.
C13_ContainerStep ==
    /\ containerElements >= 1 => containerElements' = containerElements
    /\ containerElements' >= containerElements
    /\ containerElements' > containerElements => Len(toasts') = Len(toasts) + 1

\* C13: the toast container is a lazily created singleton: a page may start
\* without one, and after any sequence of showToast calls and removals of
\* toasts exactly one element with id toast-container exists and every toast
\* is a child of it.
C13_LazySingletonContainer == []C13_OneContainer /\ [][C13_ContainerStep]_vars

\* The first toast created the container and has been hidden and removed;
\* a later toast went into the same container.
C13_Witness ==
    /\ Len(toasts) = 2
    /\ toasts[1].createdContainer /\ ~toasts[1].attached
    /\ toasts[2].attached /\ ~toasts[2].createdContainer
    /\ toasts[2].parent = 1
    /\ containerElements = 1

\* The addToCart calls that were answered with success: true.
C14_Succeeded ==
    { c \in DOMAIN calls : Answered(c, "addToCart") /\ calls[c].value.success }

\* The success notifications, in the order in which they were emitted: every
\* completing call appends its notification to the page.
C14_SuccessNotes ==
    { i \in DOMAIN notifications : notifications[i].type = "success" }

\* The call whose successful response completed last.
C14_CompletedLast ==
    LET last == CHOOSE i \in C14_SuccessNotes :
                    \A j \in C14_SuccessNotes : j <= i
    IN  notifications[last].owner

\* C14: with several Utils.addToCart calls in flight the responses complete
\* in any order and each is applied as it arrives: the cart badge shows the
\* cart_count of the successful response that completed last, whichever call
\* was issued last, and every successful call has emitted exactly one success
\* notification.
C14_LastCompletedWins ==
    /\ C14_Succeeded # {} =>
          /\ C14_CompletedLast \in C14_Succeeded
          /\ cartBadge.textContent =
                ExpectedText(calls[C14_CompletedLast].value.cart_count)
    /\ Cardinality(C14_SuccessNotes) = Cardinality(C14_Succeeded)
    /\ \A c \in C14_Succeeded :
          /\ Cardinality(NotesOf(c, "success")) = 1
          /\ NotesOf(c, "error") = {}

\* Two calls in flight together, both answered with success; the call issued
\* first completed last, and the badge shows its cart_count, 12, and not the
\* 5 of the call issued last.
C14_Witness ==
    /\ Len(calls) = 2
    /\ C14_Succeeded = {1, 2}
    /\ calls[1].value.cart_count = 12
    /\ calls[2].value.cart_count = 5
    /\ C14_CompletedLast = 1
    /\ cartBadge.textContent = <<"1", "2">>
    /\ Len(notifications) = 2

\* Invocation i ends its burst: none follows, or the next one comes wait or
\* more after it.
C15_LastOfBurst(i) ==
    i = Len(timers) \/ timers[i + 1].set >= timers[i].set + Wait

\* The runs of func made by the timer of invocation i.
C15_RunsOf(i) == { r \in DOMAIN funcRuns : funcRuns[r].timer = i }

\* Every run of func belongs to the last invocation of a burst, has its
\* arguments, and comes wait or more after it and before any newer invocation.
C15_EveryRun ==
    \A r \in DOMAIN funcRuns :
        LET i == funcRuns[r].timer
        IN  /\ i \in DOMAIN timers
            /\ C15_LastOfBurst(i)
            /\ funcRuns[r].args = timers[i].args
            /\ funcRuns[r].time >= timers[i].set + Wait
            /\ i < Len(timers) => funcRuns[r].time <= timers[i + 1].set

\* Every burst gets one run: none for an invocation that another one followed
\* in less than wait, exactly one for the last invocation of a burst once its
\* timer is no longer pending.
C15_EveryBurst ==
    \A i \in DOMAIN timers :
        /\ Cardinality(C15_RunsOf(i)) <= 1
        /\ ~C15_LastOfBurst(i) => C15_RunsOf(i) = {} /\ ~timers[i].pending
        /\ C15_LastOfBurst(i) =>
              Cardinality(C15_RunsOf(i)) = IF timers[i].pending THEN 0 ELSE 1
        /\ timers[i].pending => i = Len(timers) /\ now <= timers[i].due

\* func runs for the newest invocation only, and leaves no timer pending.
C15_RunStep ==
    Len(funcRuns') > Len(funcRuns) =>
        /\ Len(funcRuns') = Len(funcRuns) + 1
        /\ funcRuns'[Len(funcRuns')].timer = Len(timers)
        /\ \A i \in DOMAIN timers' : ~timers'[i].pending

C15_Pending(i) == i \in DOMAIN timers /\ timers[i].pending

C16_Running(b) ==
    { k \in DOMAIN clicks : clicks[k].button = b /\ clicks[k].timer # "none" }

\* The clicks whose first timer has fired.
C16_Counted == { k \in DOMAIN clicks : clicks[k].timer # "first" }

\* The integer a counter text displays; an empty counter displays none and
\* counts as 0.
C16_Displayed(text) ==
    IF text = <<>> THEN 0
    ELSE CHOOSE n \in 0..(9 + MaxClicks) : NumberToString(n) = text

\* Where each button is in its sequence, and what the clicks have added up
\* to: one toast and one more on the counter per click whose first timer fired.
C16_Sequence ==
    /\ \A b \in DOMAIN buttons :
          /\ Cardinality(C16_Running(b)) <= 1
          /\ buttons[b].disabled <=> C16_Running(b) # {}
          /\ C16_Running(b) = {} => buttons[b].innerHTML = CartIcon
          /\ \A k \in C16_Running(b) :
                /\ clicks[k].originalHTML = CartIcon
                /\ buttons[b].innerHTML =
                      IF clicks[k].timer = "first" THEN Spinner ELSE CheckCircle
    /\ Len(toasts) = Cardinality(C16_Counted)
    /\ \A t \in DOMAIN toasts :
          /\ toasts[t].type = "success"
          /\ toasts[t].message = MsgToastAdded
          /\ toasts[t].className = <<"toast", "bg-success">>
    /\ cartCounter.present =>
          C16_Displayed(cartCounter.textContent) =
              C16_Displayed(cartCounter.rendered) + Cardinality(C16_Counted)

\* The three steps of a click: the click itself, its first timer, its second.
C16_ClickSteps ==
    /\ Len(clicks') > Len(clicks) =>
          LET b == clicks'[Len(clicks')].button
          IN  /\ Len(clicks') = Len(clicks) + 1
              /\ ~buttons[b].disabled
              /\ buttons'[b] = [innerHTML |-> Spinner, disabled |-> TRUE]
              /\ UNCHANGED <<toasts, cartCounter>>
    /\ \A k \in DOMAIN clicks :
          LET b == clicks[k].button
          IN  /\ (clicks[k].timer = "first" /\ clicks'[k].timer # "first") =>
                    /\ clicks'[k].timer = "second"
                    /\ buttons'[b] = [innerHTML |-> CheckCircle,
                                      disabled |-> TRUE]
                    /\ Len(toasts') = Len(toasts) + 1
                    /\ cartCounter.present =>
                          C16_Displayed(cartCounter'.textContent) =
                              C16_Displayed(cartCounter.textContent) + 1
              /\ (clicks[k].timer = "second" /\ clicks'[k].timer # "second") =>
                    /\ clicks'[k].timer = "none"
                    /\ buttons'[b] = [innerHTML |-> CartIcon,
                                      disabled |-> FALSE]
                    /\ UNCHANGED <<toasts, cartCounter>>

C16_Disabled(b) == b \in DOMAIN buttons /\ buttons[b].disabled

C16_Restored(b) ==
    /\ b \in DOMAIN buttons
    /\ ~buttons[b].disabled
    /\ buttons[b].innerHTML = CartIcon

\* C16: a click on the add-to-cart button of a product card disables the
\* button and shows the spinner; its first timer shows the check mark, emits
\* one success toast and raises the cart counter by one; its second timer
\* enables the button with the content it had before the click.  The button
\* is disabled from the click to the second timer, so no two sequences of a
\* button overlap, toasts and counter rise by one per click, and with timers
\* firing a disabled button is enabled again.
C16_ClickSequence ==
    /\ []C16_Sequence
    /\ [][C16_ClickSteps]_vars
    /\ \A b \in 1..NumButtons : C16_Disabled(b) ~> C16_Restored(b)

\* Button 1 was clicked twice, one sequence after the other, and is as it was;
\* button 2 shows the check mark of the third click; the counter went from 9
\* to 12 and three toasts were emitted.
C16_Witness ==
    /\ Len(clicks) = 3
    /\ clicks[1].button = 1 /\ clicks[1].timer = "none"
    /\ clicks[2].button = 1 /\ clicks[2].timer = "none"
    /\ clicks[3].button = 2 /\ clicks[3].timer = "second"
    /\ buttons[1] = [innerHTML |-> CartIcon, disabled |-> FALSE]
    /\ buttons[2] = [innerHTML |-> CheckCircle, disabled |-> TRUE]
    /\ cartCounter.rendered = <<"9">>
    /\ cartCounter.textContent = <<"1", "2">>
    /\ Len(toasts) = 3

====
